---- MODULE Spec2Model ----
(***************************************************************************)
(* L_bash_profile: the analysis pipeline of src/src/L_bash_profile.py.     *)
(*                                                                         *)
(*   read (parallel process_line tasks, sorted by idx)                      *)
(*     -> calculate_records_spent_time                                      *)
(*     -> get_callgraph (builder loop, then the optional function filter)   *)
(*     -> print_top_longest_commands -> print_top_longest_functions         *)
(*     -> generate_dot_callgraph, generate_dot_callstats,                   *)
(*        create_python_pstats_file (each when asked for; get_callstats    *)
(*        is evaluated by the first of the last two that runs)             *)
(*                                                                         *)
(* A trace line is kept as what shlex.split makes of it: the prefix the    *)
(* code tests with startswith, whether shlex.split succeeds, and the token *)
(* list arr.  Tokens are strings; int() is the table int below.  A command *)
(* text " ".join(arr[7:]) is kept as the tuple of the joined tokens (the   *)
(* tokens of the model hold no blank), and repr() of it as a tagged copy.  *)
(* Times in seconds are Python floats, kept as IEEE 754 doubles.  The      *)
(* tables print_top_longest_* print are not kept, only the dicts they are  *)
(* made from and the exception their making can raise.                     *)
(***************************************************************************)
EXTENDS Integers, Sequences, FiniteSets, TLC

VARIABLES
  lines,          \* args.profilefile: the lines of the trace file
  filterfunction, \* args.filterfunction: NoFilter, or the funcnames the pattern matches
  pc,             \* position of Analyzer.run
  pending,        \* read: groups of asgroups not yet processed by the pool
  results,        \* read: the lists returned by process_line, in completion order
  records,        \* Analyzer.records
  nodes,          \* every CallgraphNode created so far (index = identity)
  callgraph,      \* get_callgraph: the node returned as the tree root
  curnode,        \* get_callgraph: cursor node
  curlevel,       \* get_callgraph: cursor level
  pos,            \* get_callgraph: number of records consumed by the loop
  callstats,      \* get_callstats: the root CallstatsNode (an empty root before)
  failure,        \* the exception that ended the run ("" while none)
  commands,       \* Analyzer.commands, set by print_top_longest_commands
  functions,      \* Analyzer.functions, set by print_top_longest_functions
  dotlimit,       \* args.dotlimit
  dot,            \* generate_dot_callgraph: the Digraph written (None before)
  dotstats,       \* generate_dot_callstats: the Digraph written (None before)
  pstats          \* create_python_pstats_file: the dict dumped (None before)

vars == <<lines, filterfunction, pc, pending, results, records, nodes,
          callgraph, curnode, curlevel, pos, callstats, failure,
          commands, functions, dotlimit, dot, dotstats, pstats>>

----------------------------------------------------------------------------
(* Bounds of the model *)

\* longest trace file read by the Line Parser
MaxLines == 3
\* lines per process_line task: the n handed to asgroups by read, which
\* is 100 in the source and scaled down here so that a file of MaxLines
\* lines is split over several tasks
GroupSize == 2
\* longest record list handed to the Call-Tree Builder directly
MaxRecs == 5
\* deepest level of a record handed to the Call-Tree Builder directly
MaxLevel == 3

----------------------------------------------------------------------------
(* Small helpers *)

None == 0

RECURSIVE SumSeq(_)
SumSeq(s) == IF s = <<>> THEN 0 ELSE Head(s) + SumSeq(Tail(s))

RECURSIVE SumSet(_, _)
\* sum(f[k] for k in S)
SumSet(f, S) ==
  IF S = {} THEN 0
  ELSE LET k == CHOOSE e \in S : TRUE IN f[k] + SumSet(f, S \ {k})

Range(s) == { s[i] : i \in DOMAIN s }

EmptyMap == [k \in {} |-> 0]

----------------------------------------------------------------------------
(* Data model *)

\* FunctionKey(filename, lineno, funcname)
FunctionKey(filename, lineno, funcname) ==
  [filename |-> filename, lineno |-> lineno, funcname |-> funcname]

\* FunctionKey(): the dataclass defaults
DefaultFunctionKey == FunctionKey("", -1, "")

\* Record(...); spent_us defaults to -1
Record(idx, stamp_us, pid, cmd, level, lineno, source, funcname) ==
  [idx |-> idx, stamp_us |-> stamp_us, pid |-> pid, cmd |-> cmd,
   level |-> level, lineno |-> lineno, source |-> source,
   funcname |-> funcname, spent_us |-> -1]

\* Record.function
function(r) == FunctionKey(r.source, r.lineno, r.funcname)

\* Records.sum_spent_us
sum_spent_us(rs) == SumSeq([i \in DOMAIN rs |-> rs[i].spent_us])

----------------------------------------------------------------------------
(* Line Parser *)

IntTokens == {"-1", "0", "1", "2", "5", "7", "1000000", "1000500", "1002000"}

\* int(tok) for the tokens of the model; a token outside IntTokens raises
int(tok) ==
  CASE tok = "-1" -> -1
    [] tok = "0" -> 0
    [] tok = "1" -> 1
    [] tok = "2" -> 2
    [] tok = "5" -> 5
    [] tok = "7" -> 7
    [] tok = "1000000" -> 1000000
    [] tok = "1000500" -> 1000500
    [] tok = "1002000" -> 1002000

\* arr[7:]
Slice7(arr) == IF Len(arr) > 7 THEN SubSeq(arr, 8, Len(arr)) ELSE <<>>

\* " ".join(arr[7:]) and repr(" ".join(arr[7:]))
JoinCmd(arr) == [repr |-> FALSE, words |-> Slice7(arr)]
ReprCmd(arr) == [repr |-> TRUE, words |-> Slice7(arr)]

\* The try block raises: shlex.split fails, arr[1..6] is out of range, or
\* int() of arr[1], arr[2], arr[3], arr[4] fails.  (arr is 1-based here.)
Raises(line) ==
  \/ ~line.splitok
  \/ Len(line.arr) < 7
  \/ \E k \in 2..5 : line.arr[k] \notin IntTokens

\* The body of the loop of process_line for one (lineno, line): the list of
\* records it appends (none or one).
ParseLine(lineno, line) ==
  IF line.prefix \notin {"# ", "+"} THEN <<>>
  ELSE IF Raises(line) THEN <<>>
  ELSE LET arr == line.arr IN
    << Record(lineno, int(arr[2]), int(arr[3]),
              IF line.prefix = "# " THEN JoinCmd(arr) ELSE ReprCmd(arr),
              int(arr[4]) + 1, int(arr[5]), arr[6], arr[7]) >>

RECURSIVE process_line_break(_)
\* process_line with `break` in the except clause: the first line that
\* raises ends the group
process_line_break(data) ==
  IF data = <<>> THEN <<>>
  ELSE LET lineno == Head(data)[1]
           line   == Head(data)[2]
       IN IF line.prefix \in {"# ", "+"} /\ Raises(line) THEN <<>>
          ELSE ParseLine(lineno, line) \o process_line_break(Tail(data))

RECURSIVE process_line(_)
\* LineProcessor.process_line(data): data is a list of (lineno, line)
process_line(data) ==
  IF data = <<>> THEN <<>>
  ELSE ParseLine(Head(data)[1], Head(data)[2]) \o process_line(Tail(data))

\* enumerate(f): 0-based (lineno, line) pairs
enumerate(f) == [i \in 1..Len(f) |-> <<i - 1, f[i]>>]

\* maybe_take_n(generator, n)
maybe_take_n(generator, n) ==
  IF n # None /\ n > 0
  THEN SubSeq(generator, 1, IF n < Len(generator) THEN n ELSE Len(generator))
  ELSE generator

\* asgroups(x, n): consecutive groups of n elements, the last one shorter
asgroups(x, n) ==
  [g \in 1..((Len(x) + n - 1) \div n) |->
     SubSeq(x, (g - 1) * n + 1, IF g * n < Len(x) THEN g * n ELSE Len(x))]

RECURSIVE flatten(_)
\* flatten(x)
flatten(x) == IF x = <<>> THEN <<>> ELSE Head(x) \o flatten(Tail(x))

RECURSIVE Insert(_, _)
\* insert r after every element whose idx is <= r.idx (stable)
Insert(s, r) ==
  IF s = <<>> THEN <<r>>
  ELSE IF Head(s).idx <= r.idx THEN <<Head(s)>> \o Insert(Tail(s), r)
  ELSE <<r>> \o s

RECURSIVE SortedFrom(_, _)
SortedFrom(acc, x) ==
  IF x = <<>> THEN acc ELSE SortedFrom(Insert(acc, Head(x)), Tail(x))

\* sorted() left out: the merged list as it arrived
sorted_by_idx_none(x) == x

\* sorted(x, key=lambda x: x.idx)
sorted_by_idx(x) == SortedFrom(<<>>, x)

----------------------------------------------------------------------------
(* Record Sequencer *)

\* the loop of calculate_records_spent_time writing the difference the
\* wrong way round
spent_loop_swapped(rs) ==
  [i \in DOMAIN rs |->
     IF i < Len(rs)
     THEN [rs[i] EXCEPT !.spent_us = rs[i].stamp_us - rs[i + 1].stamp_us]
     ELSE rs[i]]

\* the loop of calculate_records_spent_time: every record but the last
\* gets the difference to its successor's stamp
spent_loop(rs) ==
  [i \in DOMAIN rs |->
     IF i < Len(rs)
     THEN [rs[i] EXCEPT !.spent_us = rs[i + 1].stamp_us - rs[i].stamp_us]
     ELSE rs[i]]

\* list.pop() of a non-empty list
pop(rs) == SubSeq(rs, 1, Len(rs) - 1)

----------------------------------------------------------------------------
(* Call-Tree Builder *)

\* CallgraphNode(function, parent=parent): records starts empty.  A child
\* slot of records is a Record (it has the field idx) or [node |-> id].
CallgraphNode(fn, parent) == [function |-> fn, records |-> <<>>, parent |-> parent]

\* isinstance(rr, Record)
IsRecord(rr) == "idx" \in DOMAIN rr

\* the locals of get_callgraph at loop entry: callgraph = CallgraphNode(),
\* curnode = callgraph, curlevel = 1
InitialNodes == << CallgraphNode(DefaultFunctionKey, None) >>
InitialLevel == 1

\* the pop loop left out: the cursor stays where it is
PopLoop_stay(ns, cur, k) == cur

\* the pop loop walking up one parent whatever the level difference is
PopLoop_once(ns, cur, k) ==
  IF k <= 0 THEN cur
  ELSE IF ns[cur].parent = None THEN None
  ELSE ns[cur].parent

RECURSIVE PopLoop(_, _, _)
\* for i in range(k): assert curnode.parent; curnode = curnode.parent
\* None when the assertion fails
PopLoop(ns, cur, k) ==
  IF k <= 0 THEN cur
  ELSE IF ns[cur].parent = None THEN None
  ELSE PopLoop(ns, ns[cur].parent, k - 1)

\* the loop body counting one level per new node: curlevel = curlevel + 1
\* where the code sets curlevel = rr.level
LoopBody_levelplus1(ns, cur, lvl, rr) ==
  IF rr.level > lvl THEN
    LET newnode == Len(ns) + 1
        ns1 == Append([ns EXCEPT ![cur].records = Append(@, [node |-> newnode])],
                      CallgraphNode(function(rr), cur))
    IN [nodes |-> [ns1 EXCEPT ![newnode].records = Append(@, rr)],
        curnode |-> newnode, curlevel |-> lvl + 1]
  ELSE
    LET cur1 == IF rr.level < lvl THEN PopLoop(ns, cur, lvl - rr.level) ELSE cur
    IN IF cur1 = None
       THEN [nodes |-> ns, curnode |-> None, curlevel |-> lvl]
       ELSE [nodes |-> [ns EXCEPT ![cur1].records = Append(@, rr)],
             curnode |-> cur1, curlevel |-> rr.level]

\* the loop body with the record that opens a frame kept out of the new
\* node: curnode.records.append(rr) only in the branches that open no node
LoopBody_noleaf(ns, cur, lvl, rr) ==
  IF rr.level > lvl THEN
    LET newnode == Len(ns) + 1
    IN [nodes |-> Append([ns EXCEPT ![cur].records = Append(@, [node |-> newnode])],
                         CallgraphNode(function(rr), cur)),
        curnode |-> newnode, curlevel |-> rr.level]
  ELSE
    LET cur1 == IF rr.level < lvl THEN PopLoop(ns, cur, lvl - rr.level) ELSE cur
    IN IF cur1 = None
       THEN [nodes |-> ns, curnode |-> None, curlevel |-> lvl]
       ELSE [nodes |-> [ns EXCEPT ![cur1].records = Append(@, rr)],
             curnode |-> cur1, curlevel |-> rr.level]

\* one pass of the loop body of get_callgraph for record rr;
\* curnode = None when the assertion of the pop loop fails
LoopBody(ns, cur, lvl, rr) ==
  IF rr.level > lvl THEN
    LET newnode == Len(ns) + 1
        ns1 == Append([ns EXCEPT ![cur].records = Append(@, [node |-> newnode])],
                      CallgraphNode(function(rr), cur))
    IN [nodes |-> [ns1 EXCEPT ![newnode].records = Append(@, rr)],
        curnode |-> newnode, curlevel |-> rr.level]
  ELSE
    LET cur1 == IF rr.level < lvl THEN PopLoop(ns, cur, lvl - rr.level) ELSE cur
    IN IF cur1 = None
       THEN [nodes |-> ns, curnode |-> None, curlevel |-> lvl]
       ELSE [nodes |-> [ns EXCEPT ![cur1].records = Append(@, rr)],
             curnode |-> cur1, curlevel |-> rr.level]

\* funcnamergx.match(funcname): the pattern is kept as the funcnames it matches
Matches(pat, funcname) == funcname \in pat.matches

RECURSIVE traverse_to_filter(_, _, _)
RECURSIVE FilterChildren(_, _, _, _)
\* traverse_to_filter(node): the nodes appended to callgraph2.records, in order
traverse_to_filter(ns, pat, n) ==
  IF Matches(pat, ns[n].function.funcname) THEN <<n>>
  ELSE FilterChildren(ns, pat, ns[n].records, 1)

FilterChildren(ns, pat, rrs, i) ==
  IF i > Len(rrs) THEN <<>>
  ELSE (IF IsRecord(rrs[i]) THEN <<>> ELSE traverse_to_filter(ns, pat, rrs[i].node))
       \o FilterChildren(ns, pat, rrs, i + 1)

RECURSIVE AllNodesFrom(_, _)
RECURSIVE AllNodesIn(_, _, _)
\* a traversal that also descends into matching nodes
AllNodesFrom(ns, n) == <<n>> \o AllNodesIn(ns, ns[n].records, 1)

AllNodesIn(ns, rrs, i) ==
  IF i > Len(rrs) THEN <<>>
  ELSE (IF IsRecord(rrs[i]) THEN <<>> ELSE AllNodesFrom(ns, rrs[i].node))
       \o AllNodesIn(ns, rrs, i + 1)

\* traverse_to_filter without the else: every matching node becomes a root
filter_roots_all(ns, pat, root) ==
  SelectSeq(AllNodesFrom(ns, root), LAMBDA n : Matches(pat, ns[n].function.funcname))

\* the roots collected by traverse_to_filter(callgraph)
filter_roots(ns, pat, root) == traverse_to_filter(ns, pat, root)

\* the tail of get_callgraph: [nodes, callgraph] after the optional filter
ApplyFilter(ns, pat, root) ==
  IF ~pat.on THEN [nodes |-> ns, callgraph |-> root]
  ELSE
    LET callgraph2 == Len(ns) + 1
        roots == filter_roots(ns, pat, root)
        reparented == [n \in DOMAIN ns |->
                         IF n \in Range(roots)
                         THEN [ns[n] EXCEPT !.parent = callgraph2] ELSE ns[n]]
    IN [nodes |-> Append(reparented,
                         [function |-> DefaultFunctionKey,
                          records |-> [i \in DOMAIN roots |-> [node |-> roots[i]]],
                          parent |-> None]),
        callgraph |-> callgraph2]

RECURSIVE LoopFrom(_, _, _)
\* the loop of get_callgraph from record i on; st = [nodes, curnode, curlevel]
LoopFrom(st, rs, i) ==
  IF i > Len(rs) \/ st.curnode = None THEN st
  ELSE LoopFrom(LoopBody(st.nodes, st.curnode, st.curlevel, rs[i]), rs, i + 1)

\* get_callgraph as a whole on the records rs with the pattern pat
get_callgraph(rs, pat) ==
  LET st == LoopFrom([nodes |-> InitialNodes, curnode |-> 1,
                      curlevel |-> InitialLevel], rs, 1)
  IN IF st.curnode = None THEN [nodes |-> st.nodes, callgraph |-> None]
     ELSE ApplyFilter(st.nodes, pat, 1)

RECURSIVE level(_, _)
\* CallgraphNode.level
level(ns, n) == 1 + (IF ns[n].parent # None THEN level(ns, ns[n].parent) ELSE -1)

\* CallgraphNode.inlinetime
inlinetime(ns, n) ==
  SumSeq([i \in DOMAIN ns[n].records |->
            IF IsRecord(ns[n].records[i]) THEN ns[n].records[i].spent_us ELSE 0])

RECURSIVE totaltime(_, _)
\* childtime summing the child nodes' inlinetime instead of their totaltime
childtime_shallow(ns, n) ==
  SumSeq([i \in DOMAIN ns[n].records |->
            IF IsRecord(ns[n].records[i]) THEN 0
            ELSE inlinetime(ns, ns[n].records[i].node)])

\* CallgraphNode.childtime
childtime(ns, n) ==
  SumSeq([i \in DOMAIN ns[n].records |->
            IF IsRecord(ns[n].records[i]) THEN 0
            ELSE totaltime(ns, ns[n].records[i].node)])

\* CallgraphNode.totaltime
totaltime(ns, n) == inlinetime(ns, n) + childtime(ns, n)

RECURSIVE records_cnt(_, _)
\* CallgraphNode.records_cnt
records_cnt(ns, n) ==
  SumSeq([i \in DOMAIN ns[n].records |->
            IF IsRecord(ns[n].records[i]) THEN 1
            ELSE records_cnt(ns, ns[n].records[i].node)])

----------------------------------------------------------------------------
(* The tables of run: print_top_longest_commands, print_top_longest_functions *)

\* A dict whose order of insertion is read is kept as the sequence of its
\* items [k, v].
HasKey(d, k) == \E i \in DOMAIN d : d[i].k = k

\* d[k]
Item(d, k) == d[CHOOSE i \in DOMAIN d : d[i].k = k].v

\* d after d.setdefault(k, default)
SetDefault(d, k, default) ==
  IF HasKey(d, k) THEN d ELSE Append(d, [k |-> k, v |-> default])

\* d after d[k] = v for a key of d
SetItem(d, k, v) ==
  [i \in DOMAIN d |-> IF d[i].k = k THEN [k |-> k, v |-> v] ELSE d[i]]

\* d after del d[k]
DelItem(d, k) == SelectSeq(d, LAMBDA e : e.k # k)

\* CommandStats()
CommandStats == [records |-> <<>>, spent |-> 0, callers |-> <<>>]

\* FunctionStats()
FunctionStats == [records |-> <<>>, spent |-> 0, calls |-> 0]

\* RecordsSpentInterface.add_record(rr)
stats_add_record(v, rr) ==
  [v EXCEPT !.records = Append(@, rr), !.spent = @ + rr.spent_us]

\* CommandStats.add(rr): add_record, then callers.update([rr.funcname])
CommandStats_add(v, rr) ==
  LET c == SetDefault(v.callers, rr.funcname, 0)
  IN [stats_add_record(v, rr) EXCEPT
        !.callers = SetItem(c, rr.funcname, Item(c, rr.funcname) + 1)]

RECURSIVE traverse_for_top_longest_commands(_, _, _, _)
\* traverse_for_top_longest_commands(node) from child i of node n on, cmds
\* being self.commands
traverse_for_top_longest_commands(ns, n, i, cmds) ==
  IF i > Len(ns[n].records) THEN cmds
  ELSE
    LET rr == ns[n].records[i] IN
    IF IsRecord(rr)
    THEN LET d == SetDefault(cmds, rr.cmd, CommandStats)
         IN traverse_for_top_longest_commands(ns, n, i + 1,
              SetItem(d, rr.cmd, CommandStats_add(Item(d, rr.cmd), rr)))
    ELSE traverse_for_top_longest_commands(ns, n, i + 1,
           traverse_for_top_longest_commands(ns, rr.node, 1, cmds))

\* gen_text divides v.spent by callgraph.totaltime for the first command
\* of the table: ZeroDivisionError when there is a command and the total is 0
gen_text_raises(ns, root, cmds) == cmds # <<>> /\ totaltime(ns, root) = 0

RECURSIVE traverse_for_top_longest_functions(_, _, _, _)
\* traverse_for_top_longest_functions(node) from child i of node n on, fns
\* being self.functions
traverse_for_top_longest_functions(ns, n, i, fns) ==
  IF i > Len(ns[n].records) THEN fns
  ELSE
    LET rr == ns[n].records[i] IN
    IF IsRecord(rr)
    THEN LET k == ns[n].function
             d == SetDefault(fns, k, FunctionStats)
         IN traverse_for_top_longest_functions(ns, n, i + 1,
              SetItem(d, k, stats_add_record(Item(d, k), rr)))
    ELSE LET k == ns[rr.node].function
             d == SetDefault(fns, k, FunctionStats)
             d2 == SetItem(d, k, [Item(d, k) EXCEPT !.calls = @ + 1])
         IN traverse_for_top_longest_functions(ns, n, i + 1,
              traverse_for_top_longest_functions(ns, rr.node, 1, d2))

\* self.functions as print_top_longest_functions leaves it: the traversal,
\* then the entry of FunctionKey() deleted
top_longest_functions(ns, root) ==
  DelItem(traverse_for_top_longest_functions(ns, root, 1, <<>>), DefaultFunctionKey)

----------------------------------------------------------------------------
(* Stats Aggregator *)

\* CmdStats(cmd): callcount = 0, totaltime = 0
CmdStats(cmd) == [cmd |-> cmd, callcount |-> 0, totaltime |-> 0]

\* CallstatsNode(function).  children and cmdstats are the dicts, childorder
\* the keys of children in their order of insertion (the order in which
\* children.values() is walked); cache is the part of the instance __dict__
\* that cached_property fills (keys "inlinetime", "childtime").
CallstatsNode(fn) ==
  [function |-> fn, primitivecallcount |-> 0, recursivecallcount |-> 0,
   children |-> EmptyMap, childorder |-> <<>>, cmdstats |-> EmptyMap,
   cache |-> EmptyMap]

\* d with d[k] = v (the key added when missing)
Put(d, k, v) == [x \in DOMAIN d \cup {k} |-> IF x = k THEN v ELSE d[x]]

\* d.setdefault(k, default) as the value now stored under k
Get(d, k, default) == IF k \in DOMAIN d THEN d[k] ELSE default

\* s with s.children[k] = v, the key appended to the order when it is new
PutChild(s, k, v) ==
  [s EXCEPT !.children = Put(@, k, v),
            !.childorder = IF k \in DOMAIN s.children THEN @ ELSE Append(@, k)]

\* CallstatsNode.add_record(r)
add_record(s, r) ==
  LET c == Get(s.cmdstats, r.cmd, CmdStats(r.cmd))
  IN [s EXCEPT !.cmdstats =
        Put(@, r.cmd, [c EXCEPT !.callcount = @ + 1,
                                !.totaltime = @ + r.spent_us])]

RECURSIVE MergeCmdstats_overwrite(_, _, _)
\* the merge of cmdstats assigning the other node's totaltime where the
\* code adds it
MergeCmdstats_overwrite(cs, ocs, ks) ==
  IF ks = {} THEN cs
  ELSE LET k == CHOOSE e \in ks : TRUE
           c == Get(cs, k, CmdStats(k))
       IN MergeCmdstats_overwrite(
            Put(cs, k, [c EXCEPT !.callcount = @ + ocs[k].callcount,
                                 !.totaltime = ocs[k].totaltime]),
            ocs, ks \ {k})

RECURSIVE MergeCmdstats(_, _, _)
\* for k, v in o.cmdstats.items(): ... over the keys ks still to do
MergeCmdstats(cs, ocs, ks) ==
  IF ks = {} THEN cs
  ELSE LET k == CHOOSE e \in ks : TRUE
           c == Get(cs, k, CmdStats(k))
       IN MergeCmdstats(
            Put(cs, k, [c EXCEPT !.callcount = @ + ocs[k].callcount,
                                 !.totaltime = @ + ocs[k].totaltime]),
            ocs, ks \ {k})

\* what a call that raises AssertionError gives in place of its value
AssertionError == [raised |-> "AssertionError"]

\* the call gave an exception, not a value
IsRaised(x) == "raised" \in DOMAIN x

RECURSIVE merge(_, _)
RECURSIVE MergeChildren(_, _, _)
\* CallstatsNode.merge(o): the node self has become, or AssertionError
\* when the two nodes are not of the same function (nothing is merged)
merge(s, o) ==
  IF s.function # o.function THEN AssertionError
  ELSE MergeChildren(
         [s EXCEPT !.primitivecallcount = @ + o.primitivecallcount,
                   !.recursivecallcount = @ + o.recursivecallcount,
                   !.cmdstats = MergeCmdstats(@, o.cmdstats, DOMAIN o.cmdstats)],
         o, 1)

\* for k, v in o.children.items(): self.children.setdefault(k, ...).merge(v)
\* from the i-th item of o.children on; an exception of the inner merge
\* ends the loop
MergeChildren(s, o, i) ==
  IF i > Len(o.childorder) THEN s
  ELSE LET k == o.childorder[i]
           m == merge(Get(s.children, k, CallstatsNode(k)), o.children[k])
       IN IF IsRaised(m) THEN m
          ELSE MergeChildren(PutChild(s, k, m), o, i + 1)

RECURSIVE stats_totaltime(_)
\* CallstatsNode.inlinetime as computed (no cache)
stats_inlinetime_fresh(s) ==
  SumSet([k \in DOMAIN s.cmdstats |-> s.cmdstats[k].totaltime], DOMAIN s.cmdstats)

\* CallstatsNode.childtime as computed (no cache)
stats_childtime_fresh(s) ==
  SumSet([k \in DOMAIN s.children |-> stats_totaltime(s.children[k])],
         DOMAIN s.children)

\* CallstatsNode.inlinetime: the cached value when there is one
stats_inlinetime(s) ==
  IF "inlinetime" \in DOMAIN s.cache THEN s.cache["inlinetime"]
  ELSE stats_inlinetime_fresh(s)

\* CallstatsNode.childtime: the cached value when there is one
stats_childtime(s) ==
  IF "childtime" \in DOMAIN s.cache THEN s.cache["childtime"]
  ELSE stats_childtime_fresh(s)

\* CallstatsNode.totaltime
stats_totaltime(s) == stats_inlinetime(s) + stats_childtime(s)

RECURSIVE ReadTotaltime(_)
\* reading s.inlinetime: cached_property stores the value in the instance
ReadInlinetime(s) ==
  IF "inlinetime" \in DOMAIN s.cache THEN s
  ELSE [s EXCEPT !.cache = Put(@, "inlinetime", stats_inlinetime_fresh(s))]

\* reading s.childtime: reads totaltime of every child (filling their
\* caches), then stores the sum in the instance
ReadChildtime(s) ==
  IF "childtime" \in DOMAIN s.cache THEN s
  ELSE LET ch == [k \in DOMAIN s.children |-> ReadTotaltime(s.children[k])]
       IN [s EXCEPT !.children = ch,
                    !.cache = Put(@, "childtime",
                                  SumSet([k \in DOMAIN ch |-> stats_totaltime(ch[k])],
                                         DOMAIN ch))]

\* reading s.totaltime: inlinetime, then childtime
ReadTotaltime(s) == ReadChildtime(ReadInlinetime(s))

\* callcount leaving the recursive calls out
callcount_primitive(s) == s.primitivecallcount

\* CallstatsNode.callcount
callcount(s) == s.primitivecallcount + s.recursivecallcount

RECURSIVE traverse_for_callstats(_, _)
RECURSIVE CallstatsLoop(_, _, _, _)
\* traverse_for_callstats(node)
traverse_for_callstats(ns, n) ==
  CallstatsLoop(ns, n, CallstatsNode(ns[n].function), 1)

RECURSIVE CallstatsLoop_noflatten(_, _, _, _)
\* the loop without the branch for rr.function == node.function: a
\* self-call becomes a child entry like any other call
CallstatsLoop_noflatten(ns, n, ret, i) ==
  IF i > Len(ns[n].records) THEN ret
  ELSE
    LET rr == ns[n].records[i] IN
    IF IsRecord(rr) THEN CallstatsLoop_noflatten(ns, n, add_record(ret, rr), i + 1)
    ELSE
      LET k == ns[rr.node].function
          x == merge(Get(ret.children, k, CallstatsNode(k)),
                     traverse_for_callstats(ns, rr.node))
      IN CallstatsLoop_noflatten(ns, n,
           PutChild(ret, k, [x EXCEPT !.primitivecallcount = @ + 1]), i + 1)

\* the loop over node.records from position i on, ret being built
CallstatsLoop(ns, n, ret, i) ==
  IF i > Len(ns[n].records) THEN ret
  ELSE
    LET rr == ns[n].records[i] IN
    IF IsRecord(rr) THEN CallstatsLoop(ns, n, add_record(ret, rr), i + 1)
    ELSE IF ns[rr.node].function = ns[n].function THEN
      CallstatsLoop(ns, n,
        [merge(ret, traverse_for_callstats(ns, rr.node))
           EXCEPT !.recursivecallcount = @ + 1], i + 1)
    ELSE
      LET k == ns[rr.node].function
          x == merge(Get(ret.children, k, CallstatsNode(k)),
                     traverse_for_callstats(ns, rr.node))
      IN CallstatsLoop(ns, n,
           PutChild(ret, k, [x EXCEPT !.primitivecallcount = @ + 1]), i + 1)

\* get_callstats
get_callstats(ns, root) == traverse_for_callstats(ns, root)

----------------------------------------------------------------------------
(* Python floats *)

\* A Python float is kept as its IEEE 754 double: sign * (hi * 2^27 + lo) * 2^exp
\* with a mantissa of 53 bits (hi holds the upper 26), or all zero for 0.0.
FloatBase == 2^27
FloatZero == [sign |-> 1, hi |-> 0, lo |-> 0, exp |-> 0]
IsZero(x) == x.hi = 0 /\ x.lo = 0

\* an unsigned integer of two limbs, hi * 2^27 + lo
Limbs(hi, lo) == [hi |-> hi, lo |-> lo]

\* X * 2
ShiftLeft1(X) ==
  LET l == 2 * X.lo IN Limbs(2 * X.hi + l \div FloatBase, l % FloatBase)

\* X with the sticky bit set when bits were lost
Sticky(X, lost) == IF lost /\ X.lo % 2 = 0 THEN Limbs(X.hi, X.lo + 1) ELSE X

\* X shifted right by d bits, the bits shifted out kept as the sticky bit
RECURSIVE ShiftRightSticky(_, _)
ShiftRightSticky(X, d) ==
  IF d = 0 THEN X
  ELSE IF d < 27
    THEN Sticky(Limbs(X.hi \div 2^d, X.lo \div 2^d + (X.hi % 2^d) * 2^(27 - d)), X.lo % 2^d # 0)
  ELSE IF d < 81
    THEN ShiftRightSticky(Sticky(Limbs(X.hi \div FloatBase, X.hi % FloatBase), X.lo # 0), d - 27)
  ELSE Sticky(Limbs(0, 0), X.hi # 0 \/ X.lo # 0)
\* the mantissa of x with three more bits (guard, round, sticky)
Ext(x) == LET l == 8 * x.lo IN Limbs(8 * x.hi + l \div FloatBase, l % FloatBase)

AddX(X, Y) == LET l == X.lo + Y.lo IN Limbs(X.hi + Y.hi + l \div FloatBase, l % FloatBase)

\* X - Y for X >= Y
SubX(X, Y) ==
  LET l == X.lo - Y.lo
  IN IF l < 0 THEN Limbs(X.hi - Y.hi - 1, l + FloatBase) ELSE Limbs(X.hi - Y.hi, l)

RECURSIVE Normalize(_, _)
\* X # 0 brought to 56 bits, e being the exponent of its last bit
Normalize(X, e) ==
  IF X.hi >= 2^29 THEN Normalize(ShiftRightSticky(X, 1), e + 1)
  ELSE IF X.hi < 2^28 THEN Normalize(ShiftLeft1(X), e - 1)
  ELSE [X |-> X, e |-> e]

\* the double nearest to sign * X * 2^e, ties to even, X of 56 bits
RoundPack(sign, X, e) ==
  LET low == X.lo % 8
      mlo == X.lo \div 8 + (X.hi % 8) * 2^24
      mhi == X.hi \div 8
      up == low > 4 \/ (low = 4 /\ mlo % 2 = 1)
  IN IF ~up THEN [sign |-> sign, hi |-> mhi, lo |-> mlo, exp |-> e + 3]
     ELSE IF mlo + 1 < FloatBase THEN [sign |-> sign, hi |-> mhi, lo |-> mlo + 1, exp |-> e + 3]
     ELSE IF mhi + 1 < 2^26 THEN [sign |-> sign, hi |-> mhi + 1, lo |-> 0, exp |-> e + 3]
     ELSE [sign |-> sign, hi |-> 2^25, lo |-> 0, exp |-> e + 4]

\* |a| < |b| for doubles other than 0.0
MagLess(a, b) ==
  \/ a.exp < b.exp
  \/ a.exp = b.exp /\ (a.hi < b.hi \/ (a.hi = b.hi /\ a.lo < b.lo))

\* float.__add__
FloatAdd(a, b) ==
  IF IsZero(a) THEN b
  ELSE IF IsZero(b) THEN a
  ELSE
    LET big == IF MagLess(a, b) THEN b ELSE a
        small == IF MagLess(a, b) THEN a ELSE b
        X == Ext(big)
        Y == ShiftRightSticky(Ext(small), big.exp - small.exp)
        Z == IF a.sign = b.sign THEN AddX(X, Y) ELSE SubX(X, Y)
    IN IF Z = Limbs(0, 0) THEN FloatZero
       ELSE LET n == Normalize(Z, big.exp - 3) IN RoundPack(big.sign, n.X, n.e)

\* float.__neg__
FloatNeg(a) == IF IsZero(a) THEN a ELSE [a EXCEPT !.sign = -a.sign]

\* float.__sub__
FloatSub(a, b) == FloatAdd(a, FloatNeg(b))

\* float.__le__
FloatLE(a, b) ==
  IF IsZero(a) THEN IsZero(b) \/ b.sign = 1
  ELSE IF IsZero(b) THEN a.sign = -1
  ELSE IF a.sign # b.sign THEN a.sign = -1
  ELSE IF a.sign = 1 THEN ~MagLess(b, a)
  ELSE ~MagLess(a, b)

RECURSIVE ScaleUp(_, _, _)
\* a doubled until a >= d; k counts the doublings
ScaleUp(a, d, k) == IF a >= d THEN [a |-> a, d |-> d, k |-> k] ELSE ScaleUp(2 * a, d, k + 1)

RECURSIVE ScaleDown(_, _, _)
\* d doubled while 2 * d <= a; k counts the doublings downwards
ScaleDown(a, d, k) == IF d <= a - d THEN ScaleDown(a, 2 * d, k - 1) ELSE [a |-> a, d |-> d, k |-> k]

RECURSIVE DivBits(_, _, _)
\* long division: bits of the quotient appended to X until it has 56, then
\* the sticky bit for the remainder r
DivBits(r, d, X) ==
  IF X.hi >= 2^28 THEN Sticky(X, r # 0)
  ELSE LET X2 == ShiftLeft1(X)
       IN IF r >= d - r
          THEN DivBits(r - (d - r), d, Limbs(X2.hi, X2.lo + 1))
          ELSE DivBits(2 * r, d, X2)

\* int.__truediv__: n / d for d > 0, correctly rounded
TrueDiv(n, d) ==
  IF n = 0 THEN FloatZero
  ELSE LET a == IF n < 0 THEN -n ELSE n
           s == IF a < d THEN ScaleUp(a, d, 0) ELSE ScaleDown(a, d, 0)
       IN RoundPack(IF n < 0 THEN -1 ELSE 1,
                    DivBits(s.a - s.d, s.d, Limbs(0, 1)), -55 - s.k)

\* abs(a)
FloatAbs(a) == [a EXCEPT !.sign = 1]

\* a * k for an int 0 <= k < 16
FloatMulInt(a, k) ==
  IF k = 0 \/ IsZero(a) THEN FloatZero
  ELSE LET l == a.lo * k
           n == Normalize(Limbs(a.hi * k + l \div FloatBase, l % FloatBase), a.exp)
       IN RoundPack(a.sign, n.X, n.e)

\* int(a) for a float below 2^31 in magnitude: the fraction is dropped
FloatTrunc(a) ==
  LET d == -a.exp
  IN a.sign * (IF d >= 53 THEN 0
               ELSE IF d >= 27 THEN a.hi \div 2^(d - 27)
               ELSE a.hi * 2^(27 - d) + a.lo \div 2^d)

----------------------------------------------------------------------------
(* Exporters *)

\* us2s(us) = us / 1000000
us2s(us) == TrueDiv(us, 1000000)

\* a += b and a -= b on times in seconds
AddS(a, b) == FloatAdd(a, b)
SubS(a, b) == FloatSub(a, b)

\* Pstatsnocallers(): the dataclass defaults (the times start as the int 0,
\* which the first += makes a float)
Pstatsnocallers ==
  [callcount |-> 0, primitivecallcount |-> 0,
   inlinetime |-> FloatZero, totaltime |-> FloatZero]

\* Pstats(): the dataclass defaults
Pstats ==
  [callcount |-> 0, primitivecallcount |-> 0,
   inlinetime |-> FloatZero, totaltime |-> FloatZero, callers |-> EmptyMap]

RECURSIVE fillstats(_, _)
RECURSIVE FillChildren(_, _, _)
\* fillstats(node): statsroot after the call
fillstats(statsroot, node) ==
  LET nodestats == Get(statsroot, node.function, Pstats)
  IN FillChildren(
       Put(statsroot, node.function,
           [nodestats EXCEPT
              !.callcount = @ + callcount(node),
              !.primitivecallcount = @ + node.primitivecallcount,
              !.totaltime = AddS(@, us2s(stats_totaltime(node))),
              !.inlinetime = AddS(@, us2s(stats_inlinetime(node)))]),
       node, 1)

\* for child in node.children.values(): ... from the i-th child on
FillChildren(statsroot, node, i) ==
  IF i > Len(node.childorder) THEN statsroot
  ELSE
    LET child == node.children[node.childorder[i]]
        sr1 == fillstats(statsroot, child)
        entry == Get(sr1, child.function, Pstats)
        childstats == Get(entry.callers, node.function, Pstatsnocallers)
        sr2 == Put(sr1, child.function,
                 [entry EXCEPT !.callers =
                    Put(@, node.function,
                        [childstats EXCEPT
                           !.callcount = @ + 1,
                           !.primitivecallcount = @ + 1,
                           !.inlinetime = AddS(@, us2s(stats_inlinetime(child))),
                           !.totaltime = AddS(@, us2s(stats_totaltime(child)))])])
        sr3 == IF child.function = node.function
               THEN [sr2 EXCEPT ![node.function].totaltime =
                       SubS(@, us2s(stats_totaltime(child)))]
               ELSE sr2
    IN FillChildren(sr3, node, i + 1)

\* dataclasses.astuple(key) of a FunctionKey
astuple(key) == <<key.filename, key.lineno, key.funcname>>

\* the FunctionKey among ks whose tuple is t
KeyOf(ks, t) == CHOOSE k \in ks : astuple(k) = t

\* the tuple of a callers entry
CallerTuple(val) ==
  <<val.primitivecallcount, val.callcount, val.inlinetime, val.totaltime>>

\* writer with callcount and primitivecallcount in each other's place
writer_swapped(what) ==
  <<what.callcount, what.primitivecallcount, what.inlinetime, what.totaltime,
    [t \in { astuple(k) : k \in DOMAIN what.callers } |->
       CallerTuple(what.callers[KeyOf(DOMAIN what.callers, t)])]>>

\* writer(what): the tuple stored for one function
writer(what) ==
  <<what.primitivecallcount, what.callcount, what.inlinetime, what.totaltime,
    [t \in { astuple(k) : k \in DOMAIN what.callers } |->
       CallerTuple(what.callers[KeyOf(DOMAIN what.callers, t)])]>>

\* create_python_pstats_file: the dict handed to marshal.dump
create_python_pstats_file(stats) ==
  LET statsroot == fillstats(EmptyMap, stats)
  IN [t \in { astuple(k) : k \in DOMAIN statsroot } |->
        writer(statsroot[KeyOf(DOMAIN statsroot, t)])]

\* FunctionKey.__str__
FunctionKeyStr(fn) ==
  fn.filename \o ":" \o ToString(fn.lineno) \o "(" \o fn.funcname \o ")"

\* Integer(): the counter behind nextname
Integer == 0

\* the statements a Digraph collects
DotNode(name, label, shape) == [op |-> "node", name |-> name, label |-> label, shape |-> shape]
DotEdge(tail, head) == [op |-> "edge", tail |-> tail, head |-> head]
DotSubgraph(name, body) == [op |-> "subgraph", name |-> name, body |-> body]

RECURSIVE traverse_to_gen_callgraph(_, _, _, _)
RECURSIVE GenChildren(_, _, _, _, _, _, _)
\* traverse_to_gen_callgraph(parent, nodename, node) after parent.node(...):
\* st = [index, body] is the counter and the body of dot; the result is st
\* after the call
traverse_to_gen_callgraph(ns, n, nodename, st) ==
  GenChildren(ns, n, nodename, 1, nodename, <<>>, st)

\* the loop over node.records from child i on, graph being the body of
\* Digraph("graph_" + nodename) so far, then the closing edge and subgraph
GenChildren(ns, n, nodename, i, prevname, graph, st) ==
  IF i > Len(ns[n].records)
  THEN [st EXCEPT !.body = @ \o << DotEdge(prevname, nodename),
                                   DotSubgraph("graph_" \o nodename, graph) >>]
  ELSE
    LET rr == ns[n].records[i]
        childname == ToString(st.index)
        st1 == [index |-> st.index + 1,
                body |-> Append(st.body, DotEdge(prevname, childname))]
    IN IF IsRecord(rr)
       THEN GenChildren(ns, n, nodename, i + 1, childname,
                        Append(graph, DotNode(childname, rr.cmd, "box")), st1)
       ELSE GenChildren(ns, n, nodename, i + 1, childname,
                        Append(graph, DotNode(childname,
                                              FunctionKeyStr(ns[rr.node].function), "")),
                        traverse_to_gen_callgraph(ns, rr.node, childname, st1))

\* generate_dot_callgraph: the body of dot as written to the file
generate_dot_callgraph(ns, root) ==
  LET name == ToString(Integer)
  IN traverse_to_gen_callgraph(ns, root, name,
       [index |-> Integer + 1,
        body |-> << DotNode(name, FunctionKeyStr(ns[root].function), "") >>]).body

\* args.callstatscmds is not given
callstatscmds == FALSE

\* "%02x" % v for 0 <= v <= 255
Hex2(v) ==
  LET digit == <<"0", "1", "2", "3", "4", "5", "6", "7",
                 "8", "9", "a", "b", "c", "d", "e", "f">>
  IN digit[(v \div 16) + 1] \o digit[(v % 16) + 1]

\* RedGreenHue(elems).color(idx)
RedGreenHue_color(elems, idx) ==
  IF elems = 0 THEN None
  ELSE LET val == FloatTrunc(FloatMulInt(TrueDiv(255 * 2, elems), idx))
       IN "#" \o Hex2(IF 0 <= val /\ val < 255 THEN 255 - val ELSE 0)
              \o Hex2(IF 255 <= val THEN val - 255 ELSE 0)
              \o Hex2(0)

RECURSIVE Grouped(_)
\* the digits of n >= 0 in groups of three joined by "_"
Grouped(n) ==
  IF n < 1000 THEN ToString(n)
  ELSE Grouped(n \div 1000) \o "_"
         \o (IF n % 1000 < 10 THEN "00" ELSE IF n % 1000 < 100 THEN "0" ELSE "")
         \o ToString(n % 1000)

\* f"{n:_}"
FormatUnderscore(n) == IF n < 0 THEN "-" \o Grouped(-n) ELSE Grouped(n)

\* the statements the Digraph of generate_dot_callstats collects
DotStatsNode(name, label, color) ==
  [op |-> "node", name |-> name, label |-> label, color |-> color]
DotStatsEdge(tail, head, color) ==
  [op |-> "edge", tail |-> tail, head |-> head, color |-> color]

\* the label of the node of x: "\n".join([funcname, calls and times,
\* inline and child times])
CallstatsLabel(x) ==
  x.function.funcname \o "\n"
    \o (IF callcount(x) # 0
        THEN "calls=" \o ToString(callcount(x))
               \o " total=" \o FormatUnderscore(stats_totaltime(x))
               \o "us percall="
               \o FormatUnderscore(FloatTrunc(TrueDiv(stats_totaltime(x), callcount(x))))
               \o "us"
        ELSE "total=" \o FormatUnderscore(stats_totaltime(x)) \o "us")
    \o "\n"
    \o (IF stats_inlinetime(x) # 0
        THEN "inline=" \o FormatUnderscore(stats_inlinetime(x)) \o "us" ELSE "")
    \o (IF stats_inlinetime(x) # 0 /\ stats_childtime(x) # 0 THEN " " ELSE "")
    \o (IF stats_childtime(x) # 0
        THEN "childs=" \o FormatUnderscore(stats_childtime(x)) \o "us" ELSE "")

RECURSIVE sorted_by_totaltime(_)
\* sorted(children, key=lambda x: -x.totaltime): longest first, children of
\* equal totaltime in the order they had
sorted_by_totaltime(children) ==
  IF children = <<>> THEN <<>>
  ELSE LET rest == sorted_by_totaltime(Tail(children))
           c == Head(children)
           before == SelectSeq(rest, LAMBDA y : stats_totaltime(y) > stats_totaltime(c))
           after == SelectSeq(rest, LAMBDA y : stats_totaltime(y) <= stats_totaltime(c))
       IN before \o <<c>> \o after

RECURSIVE callstats_printer(_, _, _, _, _)
RECURSIVE PrintChildren(_, _, _, _, _)
\* callstats_printer(parents, x, color) with args.dotlimit = lim: body, the
\* statements of dot, after the call
callstats_printer(parents, x, color, lim, body) ==
  LET me == parents \o "_" \o x.function.funcname
      nodechildren == [i \in DOMAIN x.childorder |-> x.children[x.childorder[i]]]
      children == maybe_take_n(sorted_by_totaltime(nodechildren), lim)
  IN PrintChildren(me, children, 1, lim,
                   Append(body, DotStatsNode(me, CallstatsLabel(x), color)))

\* for idx, child in enumerate(children): ... from the i-th child on
PrintChildren(me, children, i, lim, body) ==
  IF i > Len(children) THEN body
  ELSE
    LET child == children[i]
        color == RedGreenHue_color(Len(children), i - 1)
    IN PrintChildren(me, children, i + 1, lim,
         callstats_printer(me, child, color, lim,
           Append(body, DotStatsEdge(me, me \o "_" \o child.function.funcname, color))))

\* generate_dot_callstats: the body of dot as written to the file
generate_dot_callstats(stats, lim) == callstats_printer("", stats, None, lim, <<>>)

----------------------------------------------------------------------------
(* Inputs *)

\* a "# ..." line (DEBUG and VAR methods) with its seven fields and one
\* command word
HashLine(stamp, pid, depth, lineno, fn, word) ==
  [prefix |-> "# ", splitok |-> TRUE,
   arr |-> <<"#", stamp, pid, depth, lineno, "s", fn, word>>]

\* a "+ ..." line (XTRACE method)
PlusLine(stamp, pid, depth, lineno, fn, word) ==
  [prefix |-> "+", splitok |-> TRUE,
   arr |-> <<"+", stamp, pid, depth, lineno, "s", fn, word>>]

StampTokens == {"1000000", "1000500", "1002000"}

GoodLines ==
  { HashLine(st, "7", d, "5", "f", "a") : st \in StampTokens, d \in {"0", "1"} }
    \cup { PlusLine("1000500", "7", "0", "5", "g", "a") }

BadLines ==
  { [prefix |-> "# ", splitok |-> FALSE, arr |-> <<>>],   \* no closing quotation
    [prefix |-> "# ", splitok |-> TRUE, arr |-> <<"#", "1000500", "7">>],
    HashLine("abc", "7", "0", "5", "f", "a"),
    HashLine("1000500", "abc", "0", "5", "f", "a"),
    PlusLine("1000500", "7", "abc", "5", "f", "a"),
    HashLine("1000500", "7", "0", "abc", "f", "a"),
    [prefix |-> "#x", splitok |-> TRUE,
     arr |-> <<"#x", "1000500", "7", "0", "5", "s", "f", "a">>] }

LineSet == GoodLines \cup BadLines

SeqsUpTo(S, n) == UNION { [1..k -> S] : k \in 0..n }

FuncNames == {"f", "g"}

NoFilter == [on |-> FALSE, matches |-> {}]

\* the patterns, each kept as the set of funcnames re.match accepts; ""
\* is the funcname of the root CallgraphNode()
Patterns == { [on |-> TRUE, matches |-> m] : m \in SUBSET (FuncNames \cup {""}) }

\* args.linelimit is not given
linelimit == None

\* the task arguments of pool.map in read
groups == asgroups(maybe_take_n(enumerate(lines), linelimit), GroupSize)

----------------------------------------------------------------------------
(* Analyzer.run from a trace file *)

Init ==
  /\ lines \in SeqsUpTo(LineSet, MaxLines)
  /\ filterfunction = NoFilter
  /\ pc = "read"
  /\ pending = 1..((Len(lines) + GroupSize - 1) \div GroupSize)
  /\ results = <<>>
  /\ records = <<>>
  /\ nodes = InitialNodes
  /\ callgraph = None
  /\ curnode = 1
  /\ curlevel = InitialLevel
  /\ pos = 0
  /\ callstats = CallstatsNode(DefaultFunctionKey)
  /\ failure = ""
  /\ commands = None
  /\ functions = None
  /\ dotlimit = 0
  /\ dot = None
  /\ dotstats = None
  /\ pstats = None

\* read: a pool worker finishes one process_line task.  pool.map hands the
\* lists back in task order; here they are merged in the order the tasks
\* finish, which covers that order and every other one.
ProcessTask ==
  /\ pc = "read"
  /\ \E g \in pending :
       /\ results' = Append(results, process_line(groups[g]))
       /\ pending' = pending \ {g}
  /\ UNCHANGED <<lines, filterfunction, pc, records, nodes, callgraph,
                 curnode, curlevel, pos, callstats, failure,
                 commands, functions, dotlimit, dot, dotstats, pstats>>

\* read: every task is done; self.records = sorted(flatten(...), key=idx)
Sort ==
  /\ pc = "read"
  /\ pending = {}
  /\ records' = sorted_by_idx(flatten(results))
  /\ pc' = "calc"
  /\ UNCHANGED <<lines, filterfunction, pending, results, nodes, callgraph,
                 curnode, curlevel, pos, callstats, failure,
                 commands, functions, dotlimit, dot, dotstats, pstats>>

\* calculate_records_spent_time: the loop, then self.records.pop(), which
\* raises IndexError on an empty list
CalculateSpent ==
  /\ pc = "calc"
  /\ IF records = <<>>
     THEN /\ failure' = "IndexError"
          /\ pc' = "crashed"
          /\ UNCHANGED records
     ELSE /\ records' = pop(spent_loop(records))
          /\ pc' = "callgraph"
          /\ UNCHANGED failure
  /\ UNCHANGED <<lines, filterfunction, pending, results, nodes, callgraph,
                 curnode, curlevel, pos, callstats,
                 commands, functions, dotlimit, dot, dotstats, pstats>>

\* get_callgraph: one pass of the loop over self.records
LoopStep ==
  /\ pc = "callgraph"
  /\ pos < Len(records)
  /\ LET r == LoopBody(nodes, curnode, curlevel, records[pos + 1]) IN
       IF r.curnode = None
       THEN /\ failure' = "AssertionError"
            /\ pc' = "crashed"
            /\ UNCHANGED <<nodes, curnode, curlevel, pos>>
       ELSE /\ nodes' = r.nodes
            /\ curnode' = r.curnode
            /\ curlevel' = r.curlevel
            /\ pos' = pos + 1
            /\ UNCHANGED <<failure, pc>>
  /\ UNCHANGED <<lines, filterfunction, pending, results, records, callgraph,
                 callstats,
                 commands, functions, dotlimit, dot, dotstats, pstats>>

\* get_callgraph: the loop is over; args.filterfunction is read here for the
\* first time (the model fixes the argument at this read), the optional
\* filter is applied and the tree is returned
Filter ==
  /\ pc = "callgraph"
  /\ pos = Len(records)
  /\ \E pat \in {NoFilter} \cup Patterns :
       /\ filterfunction' = pat
       /\ LET r == ApplyFilter(nodes, pat, 1) IN
            /\ nodes' = r.nodes
            /\ callgraph' = r.callgraph
  /\ pc' = "commands"
  /\ UNCHANGED <<lines, pending, results, records, curnode,
                 curlevel, pos, callstats, failure,
                 commands, functions, dotlimit, dot, dotstats, pstats>>

\* print_top_longest_commands, once get_callgraph has returned: the
\* commands of the tree are collected, then the tables are made, which
\* raises ZeroDivisionError on a tree with commands and a total time of 0
TopCommands ==
  /\ pc = "commands"
  /\ commands' = traverse_for_top_longest_commands(nodes, callgraph, 1, <<>>)
  /\ IF gen_text_raises(nodes, callgraph, commands')
     THEN /\ failure' = "ZeroDivisionError"
          /\ pc' = "crashed"
     ELSE /\ pc' = "functions"
          /\ UNCHANGED failure
  /\ UNCHANGED <<lines, filterfunction, pending, results, records, nodes,
                 callgraph, curnode, curlevel, pos, callstats,
                 functions, dotlimit, dot, dotstats, pstats>>

\* print_top_longest_functions
TopFunctions ==
  /\ pc = "functions"
  /\ functions' = top_longest_functions(nodes, callgraph)
  /\ pc' = "callstats"
  /\ UNCHANGED <<lines, filterfunction, pending, results, records, nodes,
                 callgraph, curnode, curlevel, pos, callstats, failure,
                 commands, dotlimit, dot, dotstats, pstats>>

\* get_callstats
Callstats ==
  /\ pc = "callstats"
  /\ callstats' = get_callstats(nodes, callgraph)
  /\ pc' = "done"
  /\ UNCHANGED <<lines, filterfunction, pending, results, records, nodes,
                 callgraph, curnode, curlevel, pos, failure,
                 commands, functions, dotlimit, dot, dotstats, pstats>>

Next ==
  \/ ProcessTask \/ Sort \/ CalculateSpent \/ LoopStep \/ Filter
  \/ TopCommands \/ TopFunctions \/ Callstats

Spec == Init /\ [][Next]_vars

----------------------------------------------------------------------------
(* get_callgraph and get_callstats on a given record list *)

RECURSIVE Pow2(_)
Pow2(n) == IF n = 0 THEN 1 ELSE 2 * Pow2(n - 1)

\* The i-th record of a sequenced trace: stamps 1, 2, 4, ... so that
\* spent_us = 2^(i-1) and every set of records has its own sum; the commands
\* alternate between two texts.
TreeRecord(i, lvl, fn) ==
  [Record(i - 1, Pow2(i - 1), 7,
          [repr |-> FALSE, words |-> << IF i % 2 = 1 THEN "a" ELSE "b" >>],
          lvl, 1, "s", fn)
     EXCEPT !.spent_us = Pow2(i - 1)]

\* Level and funcname of each record.  The funcname of a record is read
\* only where the record opens a frame (its level is above its
\* predecessor's, or above 1 for the first); elsewhere it is "f".
Shapes ==
  { sh \in SeqsUpTo((1..MaxLevel) \X FuncNames, MaxRecs) :
      \A i \in DOMAIN sh :
        sh[i][1] <= (IF i = 1 THEN InitialLevel ELSE sh[i - 1][1]) => sh[i][2] = "f" }

RecordsOf(sh) == [i \in DOMAIN sh |-> TreeRecord(i, sh[i][1], sh[i][2])]

\* an Analyzer whose records are the sequenced records of a trace, at the
\* entry of the loop of get_callgraph
InitTree ==
  /\ lines = <<>>
  /\ filterfunction = NoFilter
  /\ pc = "callgraph"
  /\ pending = {}
  /\ results = <<>>
  /\ records \in { RecordsOf(sh) : sh \in Shapes }
  /\ nodes = InitialNodes
  /\ callgraph = None
  /\ curnode = 1
  /\ curlevel = InitialLevel
  /\ pos = 0
  /\ callstats = CallstatsNode(DefaultFunctionKey)
  /\ failure = ""
  /\ commands = None
  /\ functions = None
  /\ dotlimit = 0
  /\ dot = None
  /\ dotstats = None
  /\ pstats = None

NextTree == LoopStep \/ Filter \/ TopCommands \/ TopFunctions \/ Callstats

SpecTree == InitTree /\ [][NextTree]_vars

----------------------------------------------------------------------------
(* The exports of Analyzer.run on a given record list *)

\* the values of --dotlimit tried; 0 is the default (no limit asked for)
DotLimits == {0, 1, 2}

\* bounds of the record lists of the export runs: deep enough for a call
\* chain root -> f -> g -> f
MaxExportRecs == 4
MaxExportLevel == 5

\* as Shapes, within the bounds of the export runs and with the levels of
\* a trace in which a call deepens the stack by one: no level is more than
\* one above the level before it
ExportShapes ==
  { sh \in SeqsUpTo((1..MaxExportLevel) \X FuncNames, MaxExportRecs) :
      \A i \in DOMAIN sh :
        LET before == IF i = 1 THEN InitialLevel ELSE sh[i - 1][1]
        IN /\ sh[i][1] <= before + 1
           /\ sh[i][1] <= before => sh[i][2] = "f" }

\* the state of get_callgraph when its loop is over the records rs
LoopEnd(rs) ==
  LoopFrom([nodes |-> InitialNodes, curnode |-> 1, curlevel |-> InitialLevel], rs, 1)

\* an Analyzer run without --filterfunction on the sequenced records of a
\* trace, after print_top_longest_functions
InitExport ==
  /\ lines = <<>>
  /\ filterfunction = NoFilter
  /\ pc = "callstats"
  /\ pending = {}
  /\ results = <<>>
  /\ records \in { RecordsOf(sh) : sh \in ExportShapes }
  /\ nodes = LoopEnd(records).nodes
  /\ callgraph = 1
  /\ curnode = LoopEnd(records).curnode
  /\ curlevel = LoopEnd(records).curlevel
  /\ pos = Len(records)
  /\ callstats = CallstatsNode(DefaultFunctionKey)
  /\ failure = ""
  /\ commands = traverse_for_top_longest_commands(nodes, callgraph, 1, <<>>)
  /\ functions = top_longest_functions(nodes, callgraph)
  /\ dotlimit = 0
  /\ dot = None
  /\ dotstats = None
  /\ pstats = None

\* get_callstats as the exports read it: computed from the tree on the
\* first read, the cached tree afterwards.  Of the states of an export run
\* only the one after generate_dot_callstats has the tree cached when an
\* export starts.
cached_get_callstats ==
  IF pc = "dotstats" THEN callstats ELSE get_callstats(nodes, callgraph)

\* run: if self.args.callgraph: generate_dot_callgraph, the first of the
\* exports, from the state print_top_longest_functions has left.  It reads
\* nothing but the tree get_callgraph has cached; get_callstats is not
\* evaluated.  args.dotlimit is fixed here.
DotCallgraph ==
  /\ pc = "callstats"
  /\ \E lim \in DotLimits : dotlimit' = lim
  /\ dot' = generate_dot_callgraph(nodes, callgraph)
  /\ pc' = "dot"
  /\ UNCHANGED <<lines, filterfunction, pending, results, records, nodes,
                 callgraph, curnode, curlevel, pos, callstats, failure,
                 commands, functions, dotstats, pstats>>

\* run: if self.args.callstats: generate_dot_callstats, after the callgraph
\* export or without it.  Its first statement evaluates get_callstats, for
\* the first time in the run.  args.dotlimit is read here (and fixed here
\* when the callgraph export has not run).  The first node printed reads
\* callcount and totaltime of the root, which stores inlinetime and
\* childtime in every node of the tree.
DotCallstats ==
  /\ pc \in {"callstats", "dot"}
  /\ IF pc = "callstats" THEN dotlimit' \in DotLimits ELSE dotlimit' = dotlimit
  /\ callstats' = ReadTotaltime(cached_get_callstats)
  /\ dotstats' = generate_dot_callstats(callstats', dotlimit')
  /\ pc' = "dotstats"
  /\ UNCHANGED <<lines, filterfunction, pending, results, records, nodes,
                 callgraph, curnode, curlevel, pos, failure,
                 commands, functions, dot, pstats>>

\* run: if self.args.pstats: create_python_pstats_file, after the dot
\* exports or without them.  Its first statement reads get_callstats,
\* evaluated here unless generate_dot_callstats has run.  fillstats reads
\* totaltime of the root first, which stores inlinetime and childtime in
\* every node of the tree.
PstatsFile ==
  /\ pc \in {"callstats", "dot", "dotstats"}
  /\ callstats' = ReadTotaltime(cached_get_callstats)
  /\ pstats' = create_python_pstats_file(callstats')
  /\ pc' = "pstats"
  /\ UNCHANGED <<lines, filterfunction, pending, results, records, nodes,
                 callgraph, curnode, curlevel, pos, failure,
                 commands, functions, dotlimit, dot, dotstats>>

NextExport == DotCallgraph \/ DotCallstats \/ PstatsFile

SpecExport == InitExport /\ [][NextExport]_vars

----------------------------------------------------------------------------
(* Record Sequencer and Line Parser: properties of Spec *)

\* get_callgraph has returned the tree
Built == pc \in {"commands", "functions", "callstats", "done"}

\* C2: calculate_records_spent_time on n >= 2 records sorted by idx leaves
\* exactly the first n-1 records, each otherwise unchanged, with
\* spent_us = stamp_us of its successor minus its own stamp_us.
C2_SpentTime ==
  [][(pc = "calc" /\ Len(records) >= 2) =>
       /\ Len(records') = Len(records) - 1
       /\ \A i \in 1..(Len(records) - 1) :
            /\ records'[i].spent_us = records[i + 1].stamp_us - records[i].stamp_us
            /\ [records'[i] EXCEPT !.spent_us = -1] = records[i]]_vars

\* C2 witness: the stamps [1000000, 1000500] have left exactly one record,
\* with spent_us = 500.
C2_Witness ==
  /\ pc = "callgraph"
  /\ Len(flatten(results)) = 2
  /\ Len(records) = 1
  /\ records[1].stamp_us = 1000000
  /\ records[1].spent_us = 500

\* C3: once parsing has left fewer than 2 records, the run neither crashes
\* nor goes on to build the call tree.
C3_EmptyTraceReported ==
  (pc # "read" /\ Len(flatten(results)) < 2) => pc = "calc"

\* the sequential parse: every line of the file, in file order, by one call
SequentialParse == process_line(enumerate(lines))

StrictlyIncreasingIdx(rs) ==
  \A i \in 1..(Len(rs) - 1) : rs[i].idx < rs[i + 1].idx

\* C4: whatever the order in which the tasks finish, once read is over the
\* records are those of the sequential parse in file order, and so are the
\* sequenced records and the tree built from them.
C4_OrderIndependent ==
  pc # "read" =>
    /\ StrictlyIncreasingIdx(records)
    /\ pc = "calc" => records = SequentialParse
    /\ (pc = "callgraph" \/ Built) =>
         records = pop(spent_loop(SequentialParse))
    /\ Built =>
         LET t == get_callgraph(pop(spent_loop(SequentialParse)), filterfunction)
         IN nodes = t.nodes /\ callgraph = t.callgraph

\* C4 witness: a later task finished before an earlier one and the run
\* went through to the end with a tree that has a nested node.
C4_Witness ==
  /\ pc = "done"
  /\ Len(results) = 2
  /\ results[1] # <<>>
  /\ results[2] # <<>>
  /\ results[1][1].idx > results[2][1].idx
  /\ Len(records) = 2
  /\ Len(nodes) > 1

\* the malformed lines of the trace format
Malformed(line) ==
  \/ line.prefix \notin {"# ", "+"}            \* unrecognized prefix
  \/ ~line.splitok                             \* tokenization failure
  \/ Len(line.arr) < 7                         \* too few fields
  \/ line.arr[2] \notin IntTokens              \* timestamp
  \/ line.arr[3] \notin IntTokens              \* pid
  \/ line.arr[4] \notin IntTokens              \* depth
  \/ line.arr[5] \notin IntTokens              \* line number

\* the trace without its malformed lines
ValidLines == SelectSeq(lines, LAMBDA l : ~Malformed(l))

\* a record list without the line numbers
WithoutIdx(rs) == [i \in DOMAIN rs |-> [rs[i] EXCEPT !.idx = 0]]

\* C5: the records, and their spent_us, are those of the trace with every
\* malformed line taken out.
C5_MalformedDropped ==
  /\ pc = "calc" =>
       WithoutIdx(records) = WithoutIdx(process_line(enumerate(ValidLines)))
  /\ (pc = "callgraph" \/ Built) =>
       WithoutIdx(records) =
         WithoutIdx(pop(spent_loop(process_line(enumerate(ValidLines)))))

\* C5 witness: a malformed line between two valid lines, one record left
C5_Witness ==
  /\ pc = "done"
  /\ Len(lines) = 3
  /\ ~Malformed(lines[1])
  /\ Malformed(lines[2])
  /\ ~Malformed(lines[3])
  /\ Len(records) = 1
  /\ records[1].spent_us = int(lines[3].arr[2]) - int(lines[1].arr[2])

----------------------------------------------------------------------------
(* Call-Tree Builder and Stats Aggregator: properties of SpecTree *)

\* C1 as stated: with or without the filter, the root's totaltime is the
\* sum of spent_us over all sequenced records.
C1_RootTotalIsSumOfAllRecords ==
  Built => totaltime(nodes, callgraph) = sum_spent_us(records)

RECURSIVE MatchedSpent(_, _, _, _)
\* the sum of spent_us over the records of the subtree of n that lie in or
\* below a node whose funcname matches pat (inside: an ancestor matches)
MatchedSpent(ns, pat, n, inside) ==
  LET in == inside \/ Matches(pat, ns[n].function.funcname) IN
  SumSeq([i \in DOMAIN ns[n].records |->
            IF IsRecord(ns[n].records[i])
            THEN (IF in THEN ns[n].records[i].spent_us ELSE 0)
            ELSE MatchedSpent(ns, pat, ns[n].records[i].node, in)])

\* C1 amended: without the filter the root's totaltime is the sum of
\* spent_us over all sequenced records; with the filter it is the sum over
\* the records in or below a node whose funcname matches the pattern.
C1_RootTotal ==
  Built =>
    totaltime(nodes, callgraph) =
      (IF filterfunction.on THEN MatchedSpent(nodes, filterfunction, 1, FALSE)
       ELSE sum_spent_us(records))

\* C1 witness: a filtered tree that keeps some records and drops others,
\* below a root with a nested node
C1_Witness ==
  /\ pc = "done"
  /\ filterfunction.on
  /\ totaltime(nodes, callgraph) > 0
  /\ totaltime(nodes, callgraph) < sum_spent_us(records)
  /\ \E n \in DOMAIN nodes : nodes[n].parent \notin {None, 1, callgraph}

Levels(rs) == [i \in DOMAIN rs |-> rs[i].level]

LoopDone == pc = "callgraph" /\ pos = Len(records)

\* C6 as stated: after five records with levels [1,1,2,2,1] there is one
\* nested node with the two level-2 records, and the root has exactly three
\* children: the first record, the last record and the nested node.
C6_RootHasThreeChildren ==
  (LoopDone /\ Levels(records) = <<1, 1, 2, 2, 1>>) =>
    /\ Len(nodes) = 2
    /\ nodes[2].records = <<records[3], records[4]>>
    /\ Len(nodes[1].records) = 3
    /\ Range(nodes[1].records) = {records[1], records[5], [node |-> 2]}

\* C6 amended: after five records with levels [1,1,2,2,1] there is one
\* nested node, created at the third record, with the two level-2 records
\* as its leaves, and the root has four children in this order: the first
\* record, the second record, the nested node, the last record.
C6_RootHasFourChildren ==
  (LoopDone /\ Levels(records) = <<1, 1, 2, 2, 1>>) =>
    /\ Len(nodes) = 2
    /\ nodes[2].function = function(records[3])
    /\ nodes[2].parent = 1
    /\ nodes[2].records = <<records[3], records[4]>>
    /\ nodes[1].records = <<records[1], records[2], [node |-> 2], records[5]>>

C6_Witness == LoopDone /\ Levels(records) = <<1, 1, 2, 2, 1>>

RECURSIVE NoSelfChild(_)
\* no CallstatsNode of the tree s has a child keyed by its own function
NoSelfChild(s) ==
  /\ s.function \notin DOMAIN s.children
  /\ \A k \in DOMAIN s.children : NoSelfChild(s.children[k])

RECURSIVE SumRecursive(_, _)
\* recursivecallcount summed over the CallstatsNodes of s keyed K
SumRecursive(s, K) ==
  (IF s.function = K THEN s.recursivecallcount ELSE 0)
    + SumSet([k \in DOMAIN s.children |-> SumRecursive(s.children[k], K)],
             DOMAIN s.children)

RECURSIVE SumCallcount(_, _)
\* callcount summed over the CallstatsNodes of s keyed K
SumCallcount(s, K) ==
  (IF s.function = K THEN callcount(s) ELSE 0)
    + SumSet([k \in DOMAIN s.children |-> SumCallcount(s.children[k], K)],
             DOMAIN s.children)

\* the nodes of the call tree below its root
CalledNodes == Range(Tail(AllNodesFrom(nodes, callgraph)))

Keys == { nodes[n].function : n \in DOMAIN nodes }

\* C7: in the finished stats tree no CallstatsNode has a child keyed by its
\* own function, and for every key K the recursive call counts of the
\* nodes keyed K add up to the number of call-tree nodes keyed K whose
\* parent is keyed K too (one per self-call).
C7_RecursionFlattened ==
  pc = "done" =>
    /\ NoSelfChild(callstats)
    /\ \A K \in Keys :
         SumRecursive(callstats, K) =
           Cardinality({ n \in CalledNodes :
                           /\ nodes[n].function = K
                           /\ nodes[nodes[n].parent].function = K })

\* C7 witness: f called once from the top level calls itself once; its
\* CallstatsNode has recursivecallcount 1 and no child
C7_Witness ==
  /\ pc = "done"
  /\ ~filterfunction.on
  /\ Len(nodes) = 3
  /\ nodes[2].parent = 1
  /\ nodes[3].parent = 2
  /\ nodes[3].function = nodes[2].function
  /\ DOMAIN callstats.children = {nodes[2].function}
  /\ callstats.children[nodes[2].function].recursivecallcount = 1
  /\ callstats.children[nodes[2].function].primitivecallcount = 1
  /\ DOMAIN callstats.children[nodes[2].function].children = {}

\* C8: for every key K the callcounts of the CallstatsNodes keyed K add up
\* to the number of call-tree nodes keyed K (the nodes below the synthetic
\* root, which is the trace itself and not a call).
C8_CallcountIsNodeCount ==
  pc = "done" =>
    \A K \in Keys :
      SumCallcount(callstats, K) =
        Cardinality({ n \in CalledNodes : nodes[n].function = K })

\* C8 witness: the same function called from two different callers and
\* from itself
C8_Witness ==
  /\ pc = "done"
  /\ \E a, b, c \in CalledNodes :
       /\ nodes[a].function = nodes[b].function
       /\ nodes[b].function = nodes[c].function
       /\ nodes[nodes[a].parent].function # nodes[nodes[b].parent].function
       /\ nodes[nodes[a].parent].function # nodes[a].function
       /\ nodes[nodes[b].parent].function # nodes[b].function
       /\ nodes[nodes[c].parent].function = nodes[c].function

RECURSIVE HasMatchingAncestor(_, _, _)
\* a proper ancestor of n (by the parent links of ns) matches pat
HasMatchingAncestor(ns, pat, n) ==
  /\ ns[n].parent # None
  /\ \/ Matches(pat, ns[ns[n].parent].function.funcname)
     \/ HasMatchingAncestor(ns, pat, ns[n].parent)

\* the matching nodes without a matching proper ancestor, in the order of
\* a depth-first traversal from the root
OutermostMatches(ns, pat) ==
  SelectSeq(AllNodesFrom(ns, 1),
            LAMBDA n : /\ Matches(pat, ns[n].function.funcname)
                       /\ ~HasMatchingAncestor(ns, pat, n))

\* C10: the filter step makes a new root whose children are exactly the
\* matching nodes without a matching proper ancestor, in traversal order;
\* those nodes get the new root as parent, and every node keeps its
\* function, its children and (the new roots aside) its parent.
C10_FilterRoots ==
  [][(pc = "callgraph" /\ pc' = "commands" /\ filterfunction'.on) =>
       LET want == OutermostMatches(nodes, filterfunction') IN
         /\ callgraph' = Len(nodes) + 1
         /\ Len(nodes') = Len(nodes) + 1
         /\ nodes'[callgraph'].parent = None
         /\ nodes'[callgraph'].records = [i \in DOMAIN want |-> [node |-> want[i]]]
         /\ \A n \in DOMAIN nodes :
              /\ nodes'[n].function = nodes[n].function
              /\ nodes'[n].records = nodes[n].records
              /\ nodes'[n].parent =
                   (IF n \in Range(want) THEN callgraph' ELSE nodes[n].parent)]_vars

\* C10 witness: a filtered tree in which a new root lay below a
\* non-matching node, and a matching node nested in a matching node has
\* stayed where it was
C10_Witness ==
  /\ pc = "commands"
  /\ filterfunction.on
  /\ \E n \in DOMAIN nodes :
       /\ nodes[n].parent = callgraph
       /\ \E m \in DOMAIN nodes :
            /\ m # 1
            /\ [node |-> n] \in Range(nodes[m].records)
            /\ ~Matches(filterfunction, nodes[m].function.funcname)
  /\ \E n \in DOMAIN nodes :
       /\ Matches(filterfunction, nodes[n].function.funcname)
       /\ nodes[n].parent \notin {None, callgraph}
       /\ Matches(filterfunction, nodes[nodes[n].parent].function.funcname)

----------------------------------------------------------------------------
(* Call-Tree Builder: the loop of get_callgraph, properties of SpecTree *)

\* the pass of the loop for the next record has run without failing
Stepped == pc = "callgraph" /\ pc' = "callgraph" /\ pos' = pos + 1

\* C14: a record whose level is above curlevel, by any amount, makes the
\* loop create exactly one node: keyed by the record's FunctionKey, parent
\* = the cursor, appended as the last child of the cursor; the cursor moves
\* to it, the record is its first and only leaf, curlevel becomes the
\* record's level, and nothing else of the tree changes.
C14_LevelIncreaseOpensOneNode ==
  [][(Stepped /\ records[pos + 1].level > curlevel) =>
       LET rr == records[pos + 1]
           newnode == Len(nodes) + 1
       IN /\ Len(nodes') = Len(nodes) + 1
          /\ nodes'[newnode] = [function |-> function(rr), records |-> <<rr>>,
                                parent |-> curnode]
          /\ nodes'[curnode].records = Append(nodes[curnode].records, [node |-> newnode])
          /\ \A n \in DOMAIN nodes :
               nodes'[n] = [nodes[n] EXCEPT !.records = nodes'[n].records]
          /\ \A n \in DOMAIN nodes \ {curnode} : nodes'[n] = nodes[n]
          /\ curnode' = newnode
          /\ curlevel' = rr.level]_vars

\* C14 witness: a record of level 3 has been consumed right after one of
\* level 1, and the tree holds the root and one more node.
C14_Witness ==
  /\ pc = "callgraph"
  /\ pos = 2
  /\ Levels(records)[1] = 1
  /\ Levels(records)[2] = 3
  /\ Len(nodes) = 2
  /\ curlevel = 3

\* C15: the builder fails in the pop loop only on traces that hold a record
\* of level below 1; with every level >= 1 it completes.
C15_FailsOnlyBelowLevelOne ==
  (\A i \in DOMAIN records : records[i].level >= 1) => failure # "AssertionError"

\* levels >= 1, and every increase over the level before (over curlevel = 1
\* for the first record) is by exactly one
UnitIncreases(lv) ==
  \A i \in DOMAIN lv :
    /\ lv[i] >= 1
    /\ lv[i] > (IF i = 1 THEN InitialLevel ELSE lv[i - 1])
         => lv[i] = (IF i = 1 THEN InitialLevel ELSE lv[i - 1]) + 1

\* C16: on a trace with levels >= 1 and unit increases, after each record
\* the cursor node's CallgraphNode.level is the record's level minus 1, the
\* record is the last leaf of the cursor node, and the pop loop has not
\* reached a node without parent.
C16_CursorInvariant ==
  UnitIncreases(Levels(records)) =>
    /\ failure # "AssertionError"
    /\ (pc = "callgraph" /\ pos >= 1) =>
         /\ level(nodes, curnode) = records[pos].level - 1
         /\ curlevel = records[pos].level
         /\ nodes[curnode].records # <<>>
         /\ nodes[curnode].records[Len(nodes[curnode].records)] = records[pos]

\* C16 witness: the levels [2, 3, 1, 2] are consumed; the pop loop has
\* walked from depth 2 back to the root, and a frame is open again.
C16_Witness ==
  /\ LoopDone
  /\ Levels(records) = <<2, 3, 1, 2>>
  /\ level(nodes, curnode) = 1
  /\ Len(nodes) = 4

RECURSIVE Leaves(_, _)
RECURSIVE LeavesIn(_, _, _)
\* the records met by a depth-first, left-to-right walk from node n
Leaves(ns, n) == LeavesIn(ns, ns[n].records, 1)

LeavesIn(ns, rrs, i) ==
  IF i > Len(rrs) THEN <<>>
  ELSE (IF IsRecord(rrs[i]) THEN <<rrs[i]>> ELSE Leaves(ns, rrs[i].node))
       \o LeavesIn(ns, rrs, i + 1)

\* C17: without a filter the leaves of the tree, depth first and left to
\* right, are the sequenced records in their order, each once; records_cnt
\* of the root is the number of records.  It holds after every pass of the
\* loop for the records consumed so far.
C17_LeavesAreTheRecords ==
  /\ (pc = "callgraph" /\ failure = "") =>
       /\ Leaves(nodes, 1) = SubSeq(records, 1, pos)
       /\ records_cnt(nodes, 1) = pos
  /\ (Built /\ ~filterfunction.on) =>
       /\ Leaves(nodes, callgraph) = records
       /\ records_cnt(nodes, callgraph) = Len(records)

\* C17 witness: a tree of five records on the root and two nested nodes,
\* returned without a filter.
C17_Witness ==
  /\ Built
  /\ ~filterfunction.on
  /\ Levels(records) = <<1, 2, 3, 2, 1>>
  /\ Len(nodes) = 3
  /\ records_cnt(nodes, callgraph) = 5

----------------------------------------------------------------------------
(* Exporters and Stats Aggregator: properties of SpecExport *)

RECURSIVE StatsNodes(_)
RECURSIVE StatsNodesIn(_, _)
\* every CallstatsNode of the tree s, parents first, the children of a
\* node in the order of its dict
StatsNodes(s) == <<s>> \o StatsNodesIn(s, 1)

StatsNodesIn(s, i) ==
  IF i > Len(s.childorder) THEN <<>>
  ELSE StatsNodes(s.children[s.childorder[i]]) \o StatsNodesIn(s, i + 1)

RECURSIVE StatsEdges(_)
RECURSIVE StatsEdgesIn(_, _)
\* every pair [parent, child] of CallstatsNodes of the tree s, in the order
\* in which the walks below the children end
StatsEdges(s) == StatsEdgesIn(s, 1)

StatsEdgesIn(s, i) ==
  IF i > Len(s.childorder) THEN <<>>
  ELSE LET c == s.children[s.childorder[i]]
       IN StatsEdges(c) \o <<[parent |-> s, child |-> c]>> \o StatsEdgesIn(s, i + 1)

\* the CallstatsNodes of s keyed K
StatsKeyed(s, K) == SelectSeq(StatsNodes(s), LAMBDA x : x.function = K)

\* the edges of s into a node keyed K from a node keyed P
EdgesKeyed(s, P, K) ==
  SelectSeq(StatsEdges(s), LAMBDA e : e.parent.function = P /\ e.child.function = K)

\* the sum of F over the elements of the sequence q
SumOver(F(_), q) == SumSeq([i \in DOMAIN q |-> F(q[i])])

\* the FunctionKeys of the CallstatsNodes of s
StatsKeys(s) == { x.function : x \in Range(StatsNodes(s)) }

RECURSIVE FloatSumFrom(_, _, _, _)
\* acc + us2s(F(q[i])) + us2s(F(q[i + 1])) + ... as floats, left to right
FloatSumFrom(F(_), q, i, acc) ==
  IF i > Len(q) THEN acc
  ELSE FloatSumFrom(F, q, i + 1, FloatAdd(acc, us2s(F(q[i]))))

\* the float sum of the values F of the elements of q, each converted to
\* seconds, in the order of q
FloatSumOver(F(_), q) == FloatSumFrom(F, q, 1, FloatZero)

\* the float x is within half a microsecond of us microseconds
NearUs(x, us) == FloatLE(FloatAbs(FloatSub(x, us2s(us))), TrueDiv(1, 2000000))

\* C11: the pstats dict has one entry per FunctionKey K of the statistics
\* tree, under astuple(K), with the tuple (primitive call count, call
\* count, inline time, cumulative time, callers).  The counts are the sums
\* over the CallstatsNodes keyed K.  The times are the sums over the same
\* nodes in seconds, as floats: each node's microseconds are converted and
\* added one by one in the order of the walk (parents first for the
\* function's own times, the end of the walk below the child for a callers
\* entry), which is within half a microsecond of the exact sum.  The
\* subtraction for a child keyed like its parent has nothing to apply to:
\* no node of the tree has such a child.  callers has one entry per key P
\* of a parent of a node keyed K, counting the edges P -> K.
C11_PstatsAreTheSums ==
  pc = "pstats" =>
    /\ DOMAIN pstats = { astuple(K) : K \in StatsKeys(callstats) }
    /\ \A K \in StatsKeys(callstats) :
         LET q == StatsKeyed(callstats, K)
             t == pstats[astuple(K)]
             Prim(x) == x.primitivecallcount
             Calls(x) == callcount(x)
             Inl(x) == stats_inlinetime(x)
             Tot(x) == stats_totaltime(x)
             ChildInl(e) == stats_inlinetime(e.child)
             ChildTot(e) == stats_totaltime(e.child)
             Parents == { P \in StatsKeys(callstats) : EdgesKeyed(callstats, P, K) # <<>> }
         IN /\ Len(t) = 5
            /\ t[1] = SumOver(Prim, q)
            /\ t[2] = SumOver(Calls, q)
            /\ t[3] = FloatSumOver(Inl, q)
            /\ NearUs(t[3], SumOver(Inl, q))
            /\ EdgesKeyed(callstats, K, K) = <<>>
            /\ t[4] = FloatSumOver(Tot, q)
            /\ NearUs(t[4], SumOver(Tot, q))
            /\ DOMAIN t[5] = { astuple(P) : P \in Parents }
            /\ \A P \in Parents :
                 LET e == EdgesKeyed(callstats, P, K)
                 IN /\ t[5][astuple(P)] =
                         <<Len(e), Len(e), FloatSumOver(ChildInl, e), FloatSumOver(ChildTot, e)>>
                    /\ NearUs(t[5][astuple(P)][3], SumOver(ChildInl, e))
                    /\ NearUs(t[5][astuple(P)][4], SumOver(ChildTot, e))

\* C11 witness: a pstats dict in which f was called three times, two of
\* the calls primitive, from two CallstatsNodes keyed f, and the inline
\* time of f, added up as floats, differs in its last bit from the
\* conversion of the exact sum.
C11_Witness ==
  /\ pc = "pstats"
  /\ Len(StatsKeyed(callstats, FunctionKey("s", 1, "f"))) = 2
  /\ pstats[<<"s", 1, "f">>][1] = 2
  /\ pstats[<<"s", 1, "f">>][2] = 3
  /\ LET Inl(x) == stats_inlinetime(x)
     IN pstats[<<"s", 1, "f">>][3] #
          us2s(SumOver(Inl, StatsKeyed(callstats, FunctionKey("s", 1, "f"))))

\* the nodes of the returned tree keyed K with no proper ancestor keyed K
OutermostKeyed(K) ==
  { n \in Range(AllNodesFrom(nodes, callgraph)) :
      /\ nodes[n].function = K
      /\ LET RECURSIVE Clear(_)
             Clear(m) == \/ m = None
                         \/ nodes[m].function # K /\ Clear(nodes[m].parent)
         IN Clear(nodes[n].parent) }

\* C12: in the pstats dict the cumulative time of every function is the
\* summed totaltime of its outermost call-tree nodes (time spent while the
\* function is already active above, directly or through other functions,
\* counts once), and it never exceeds the totaltime of the tree root.
C12_RecursiveTimeCountedOnce ==
  pc = "pstats" =>
    \A K \in StatsKeys(callstats) :
      /\ pstats[astuple(K)][4] =
           us2s(SumSet([n \in OutermostKeyed(K) |-> totaltime(nodes, n)], OutermostKeyed(K)))
      /\ FloatLE(pstats[astuple(K)][4], us2s(totaltime(nodes, callgraph)))

\* the tree with only the first n children of every node
Truncated(ns, n) ==
  [m \in DOMAIN ns |-> [ns[m] EXCEPT !.records = maybe_take_n(@, n)]]

\* C13: with dotlimit N > 0 the callgraph export emits, for every node of
\* the tree, the first N children in discovery order and no more.
C13_DotlimitBoundsChildren ==
  (pc = "dot" /\ dotlimit > 0) =>
    /\ dot = generate_dot_callgraph(Truncated(nodes, dotlimit), callgraph)
    /\ \A i \in DOMAIN dot :
         dot[i].op = "subgraph" => Len(dot[i].body) <= dotlimit

\* C18: the totaltime of the root CallstatsNode is the totaltime of the
\* root of the tree it was aggregated from, whatever merging the recursion
\* in the tree has caused.
C18_AggregationConservesTime ==
  pc \in {"done", "dotstats", "pstats"} =>
    stats_totaltime(callstats) = totaltime(nodes, callgraph)

\* C18 witness: a tree root -> f -> g -> f -> f, aggregated into the chain
\* f -> g -> f of CallstatsNodes with one recursive call, total 15.
C18_Witness ==
  /\ pc = "dotstats"
  /\ ~filterfunction.on
  /\ Levels(records) = <<2, 3, 4, 5>>
  /\ LET f == FunctionKey("s", 1, "f")
         g == FunctionKey("s", 1, "g")
     IN /\ f \in DOMAIN callstats.children
        /\ g \in DOMAIN callstats.children[f].children
        /\ f \in DOMAIN callstats.children[f].children[g].children
        /\ callstats.children[f].children[g].children[f].recursivecallcount = 1
  /\ stats_totaltime(callstats) = 15

----------------------------------------------------------------------------
(* CallstatsNode.merge with a copy: SpecMerge *)

\* a CallstatsNode tree as get_callstats builds it from a sequenced trace
InitMerge ==
  /\ lines = <<>>
  /\ filterfunction = NoFilter
  /\ pc = "stats"
  /\ pending = {}
  /\ results = <<>>
  /\ records \in { rs \in { RecordsOf(sh) : sh \in Shapes } :
                     get_callgraph(rs, NoFilter).callgraph # None }
  /\ nodes = get_callgraph(records, NoFilter).nodes
  /\ callgraph = 1
  /\ curnode = 1
  /\ curlevel = InitialLevel
  /\ pos = Len(records)
  /\ callstats = get_callstats(nodes, callgraph)
  /\ failure = ""
  /\ commands = None
  /\ functions = None
  /\ dotlimit = 0
  /\ dot = None
  /\ dotstats = None
  /\ pstats = None

\* a reader takes callstats.inlinetime
TakeInlinetime ==
  /\ pc \in {"stats", "merged"}
  /\ callstats' = ReadInlinetime(callstats)
  /\ UNCHANGED <<lines, filterfunction, pc, pending, results, records, nodes,
                 callgraph, curnode, curlevel, pos, failure,
                 commands, functions, dotlimit, dot, dotstats, pstats>>

\* a reader takes callstats.childtime
TakeChildtime ==
  /\ pc \in {"stats", "merged"}
  /\ callstats' = ReadChildtime(callstats)
  /\ UNCHANGED <<lines, filterfunction, pc, pending, results, records, nodes,
                 callgraph, curnode, curlevel, pos, failure,
                 commands, functions, dotlimit, dot, dotstats, pstats>>

\* callstats.merge(copy.deepcopy(callstats))
MergeCopy ==
  /\ pc = "stats"
  /\ callstats' = merge(callstats, callstats)
  /\ pc' = "merged"
  /\ UNCHANGED <<lines, filterfunction, pending, results, records, nodes,
                 callgraph, curnode, curlevel, pos, failure,
                 commands, functions, dotlimit, dot, dotstats, pstats>>

NextMerge == TakeInlinetime \/ TakeChildtime \/ MergeCopy

SpecMerge == InitMerge /\ [][NextMerge]_vars

RECURSIVE Doubled(_, _)
\* m is o with every count and every time doubled and the same keys
Doubled(o, m) ==
  /\ m.primitivecallcount = 2 * o.primitivecallcount
  /\ m.recursivecallcount = 2 * o.recursivecallcount
  /\ DOMAIN m.cmdstats = DOMAIN o.cmdstats
  /\ \A c \in DOMAIN o.cmdstats :
       /\ m.cmdstats[c].callcount = 2 * o.cmdstats[c].callcount
       /\ m.cmdstats[c].totaltime = 2 * o.cmdstats[c].totaltime
  /\ stats_inlinetime(m) = 2 * stats_inlinetime(o)
  /\ stats_childtime(m) = 2 * stats_childtime(o)
  /\ stats_totaltime(m) = 2 * stats_totaltime(o)
  /\ DOMAIN m.children = DOMAIN o.children
  /\ \A k \in DOMAIN o.children : Doubled(o.children[k], m.children[k])

\* C9: after the merge with its copy, the node is the node get_callstats
\* built with every count and every time field doubled and the same keys,
\* whether or not its time fields had been read.
C9_MergeCopyDoubles ==
  pc = "merged" => Doubled(get_callstats(nodes, callgraph), callstats)

====
